---------------------------- MODULE Spec2Model ----------------------------
(***************************************************************************)
(* Model of the prediction pipeline of the football-predictions backend:   *)
(* the trainer (app/ml/trainer.py), the predictor (app/ml/predictor.py),   *)
(* the feature engineer (app/ml/feature_engineering.py) and the model      *)
(* registry endpoints (app/api/ml.py).                                     *)
(*                                                                         *)
(* Strings are sequences of one-character strings, compared the way Python *)
(* compares str (by code point, see Ord), so that file names are built and *)
(* sorted as the code builds and sorts them.                               *)
(***************************************************************************)
EXTENDS Integers, Sequences, FiniteSets, TLC

\* ------------------------------------------------------------- bounds
\* Last second of the wall clock.
MaxClock == 2
\* Seconds in a (scaled-down) day: strftime has a date and a time field.
SecsPerDay == 2
\* Training runs that get as far as saving a model.
MaxRuns == 2
\* Rows ever inserted in predictions.
MaxPred == 2
\* Longest match_ids list of a batch request.
MaxBatch == 3
\* Probabilities are the multiples of 1/ProbaScale.
ProbaScale == 2

\* Python's None where a model_version is expected: `if model_version:` takes
\* None and the empty string alike.
None == <<>>
\* Python's None where an int is expected (home_score, away_score).
NoScore == -1

\* ------------------------------------------------------------ strings
\* Code points of the characters used, as Python's str comparison sees them.
Ord ==
  [c \in {".", "0", "1", "2", "3", "4", "5", "6", "7", "8", "9",
          "_", "k", "l", "m", "p", "x"} |->
     CASE c = "." -> 46
       [] c = "0" -> 48 [] c = "1" -> 49 [] c = "2" -> 50 [] c = "3" -> 51
       [] c = "4" -> 52 [] c = "5" -> 53 [] c = "6" -> 54 [] c = "7" -> 55
       [] c = "8" -> 56 [] c = "9" -> 57
       [] c = "_" -> 95 [] c = "k" -> 107 [] c = "l" -> 108
       [] c = "m" -> 109 [] c = "p" -> 112 [] c = "x" -> 120]

Digit == <<"0", "1", "2", "3", "4", "5", "6", "7", "8", "9">>

\* a < b for Python strings: the first differing character decides, a proper
\* prefix is smaller.
StrLess(a, b) ==
  \/ /\ Len(a) < Len(b)
     /\ SubSeq(b, 1, Len(a)) = a
  \/ \E i \in 1..Len(a) :
       /\ i <= Len(b)
       /\ SubSeq(a, 1, i - 1) = SubSeq(b, 1, i - 1)
       /\ Ord[a[i]] < Ord[b[i]]

\* sorted(xs)[-1]
SortedLast(xs) == CHOOSE x \in xs : \A y \in xs : y = x \/ StrLess(y, x)

\* str.startswith / str.endswith
StartsWith(s, prefix) ==
  Len(s) >= Len(prefix) /\ SubSeq(s, 1, Len(prefix)) = prefix

EndsWith(s, suffix) ==
  Len(s) >= Len(suffix) /\ SubSeq(s, Len(s) - Len(suffix) + 1, Len(s)) = suffix

\* datetime.now().strftime("%Y%m%d_%H%M%S"): a zero-padded date field, "_",
\* a zero-padded time field (one digit each at these bounds).
Strftime(t) == <<Digit[(t \div SecsPerDay) + 1], "_", Digit[(t % SecsPerDay) + 1]>>

\* f"{model_name}_{model_version}.pkl"
PklSuffix == <<".", "p", "k", "l">>

ModelFilename(model_name, model_version) ==
  model_name \o <<"_">> \o model_version \o PklSuffix

\* --------------------------------------------------------------- data
\* The model names requests use: one is the other followed by "_x".
ModelNames == {<<"m">>, <<"m", "_", "x">>}

\* The training threads (background tasks) that may run at once.
Trainers == {1, 2}

\* The matches table when the service starts: match 1 is a home win,
\* match 2 is scheduled, match 3 is a draw of another league and season,
\* match 4 is an away win. Season 2024 has no draw.
Matches ==
  {[id |-> 1, league |-> "PL", season |-> "2024", home_score |-> 2, away_score |-> 1],
   [id |-> 2, league |-> "PL", season |-> "2024", home_score |-> NoScore, away_score |-> NoScore],
   [id |-> 3, league |-> "L2", season |-> "2023", home_score |-> 0, away_score |-> 0],
   [id |-> 4, league |-> "PL", season |-> "2024", home_score |-> 0, away_score |-> 3]}

\* Mutant of Result: a tie counts for the home team.
Result_HomeOnTie(m) ==
  IF m.home_score = NoScore \/ m.away_score = NoScore THEN "None"
  ELSE IF m.home_score >= m.away_score THEN "H"
  ELSE "A"

\* Match.result
Result(m) ==
  IF m.home_score = NoScore \/ m.away_score = NoScore THEN "None"
  ELSE IF m.home_score > m.away_score THEN "H"
  ELSE IF m.away_score > m.home_score THEN "A"
  ELSE "D"

VARIABLES
  now,          \* the wall clock, in seconds
  files,        \* the models directory: file name -> pickled model_data
  performance,  \* committed rows of model_performance
  perfSeq,      \* rows inserted so far in model_performance (autoincrement id)
  runs,         \* training runs that reached _save_model so far
  predictions,  \* committed rows of predictions, in id order
  trainer,      \* per training thread: where it is in train_model
  trainResult,  \* what the last train_model call to end gave
  tx,           \* the open activate_model transaction, or NoTx
  response,     \* what the last request to end gave
  matches       \* committed rows of matches

vars == <<now, files, performance, perfSeq, runs, predictions, trainer, trainResult, tx,
          response, matches>>

\* ----------------------------------------------------------- features
\* The columns of the DataFrame built from one match (_prepare_match_features,
\* _get_training_data).
RawColumns ==
  <<"id", "home_team_id", "away_team_id", "league", "season", "match_date",
    "home_score", "away_score", "result">>

\* FeatureEngineer.get_feature_columns
GetFeatureColumns ==
  <<"is_home", "league_importance", "home_form_5", "away_form_5",
    "home_form_10", "away_form_10", "h2h_home_wins", "h2h_away_wins",
    "h2h_draws", "h2h_goals_home", "h2h_goals_away", "season_progress",
    "days_since_last_match_home", "days_since_last_match_away",
    "home_goals_per_match", "away_goals_per_match",
    "home_goals_against_per_match", "away_goals_against_per_match",
    "home_win_percentage", "away_win_percentage", "day_of_week",
    "month", "is_weekend">>

\* FeatureEngineer.create_features: the columns of the frame it returns, the
\* raw ones followed by the ones each _add_* step appends, in that order.
CreateFeaturesColumns ==
  RawColumns
    \o <<"is_home", "league_importance">>
    \o <<"home_form_5", "away_form_5", "home_form_10", "away_form_10">>
    \o <<"h2h_home_wins", "h2h_away_wins", "h2h_draws", "h2h_goals_home",
         "h2h_goals_away">>
    \o <<"season_progress", "days_since_last_match_home",
         "days_since_last_match_away">>
    \o <<"home_goals_per_match", "away_goals_per_match",
         "home_goals_against_per_match", "away_goals_against_per_match",
         "home_win_percentage", "away_win_percentage">>
    \o <<"day_of_week", "month", "is_weekend">>

Range(seq) == {seq[i] : i \in DOMAIN seq}

\* ------------------------------------------------------------ trainer
\* The falsy value of an optional filter: `if config.get('league')`.
NoFilter == ""

KnownModelTypes == {"random_forest", "xgboost", "logistic_regression", "neural_network"}

\* The training_config dicts handed to train_model. keys are the keys the
\* dict holds among model_name and model_type; hyperparameters is a dict or
\* None (what TrainingRequest.dict() gives when the request has none).
ConfigKeySets == {{"model_name", "model_type"}, {"model_type"}, {"model_name"}}

ModelTypeArgs == {"random_forest", "svm"}

Configs ==
  [keys : ConfigKeySets,
   model_name : ModelNames,
   model_type : ModelTypeArgs,
   league : {NoFilter, "XX"},
   season : {NoFilter, "2024"},
   hyperparameters : {"dict", "None"}]

\* Mutant of TrainingMatches: only the home score is required.
TrainingMatches_HomeScoreOnly(cfg) ==
  {m \in matches :
     /\ m.home_score # NoScore
     /\ (cfg.league # NoFilter => m.league = cfg.league)
     /\ (cfg.season # NoFilter => m.season = cfg.season)}

\* _get_training_data: the matches with both scores, filtered by league and
\* season when the config gives them.
TrainingMatches(cfg) ==
  {m \in matches :
     /\ m.home_score # NoScore
     /\ m.away_score # NoScore
     /\ (cfg.league # NoFilter => m.league = cfg.league)
     /\ (cfg.season # NoFilter => m.season = cfg.season)}

\* prepare_training_data: y = result.map({'H': 0, 'A': 1, 'D': 2})
LabelEncoding == [H |-> 0, A |-> 1, D |-> 2]

\* The labels that occur in y (map gives NaN, no label, for a result of None).
TrainingLabels(cfg) ==
  {LabelEncoding[Result(m)] : m \in {x \in TrainingMatches(cfg) : Result(x) # "None"}}

\* The ascending sequence of a set of labels.
RECURSIVE SortedSeq(_)
SortedSeq(labels) ==
  IF labels = {} THEN <<>>
  ELSE LET least == CHOOSE l \in labels : \A o \in labels : l <= o
       IN  <<least>> \o SortedSeq(labels \ {least})

\* What the library calls of one run answer: ok says whether the calls that
\* are reached (train_test_split, then fit and the evaluation) go through,
\* test_only is the set of labels of y whose members train_test_split puts
\* into the test set alone (a label with few members, when the request's
\* test_size is large, gets no member of the training set).
LibraryArgs ==
  [ok : BOOLEAN, test_only : {{}} \cup {{l} : l \in {0, 1, 2}}]

\* The library calls go through and the split leaves every label in y_train.
LibraryFine == [ok |-> TRUE, test_only |-> {}]

PlainLibraryArgs == {library \in LibraryArgs : library.test_only = {}}

\* The labels that occur in y_train.
FitLabels(cfg, library) == TrainingLabels(cfg) \ library.test_only

\* The classes of the fitted model, in the order of the columns of its
\* probability vector. The network has num_classes = 3 outputs; the other
\* families have classes_, the sorted labels of y_train.
FittedClasses(cfg, library) ==
  IF cfg.model_type = "neural_network" THEN <<0, 1, 2>>
  ELSE SortedSeq(FitLabels(cfg, library))

\* _evaluate_model: classification_report has a key for every label that
\* occurs in y_test or y_pred, and report['0'], report['1'], report['2'] are
\* read. The test set has a member of every label of y, and the families
\* other than the network predict labels of y_train only; whether the
\* network's argmax gives a label that y lacks is the library's.
EvaluateModel(cfg, library) ==
  IF cfg.model_type # "neural_network" /\ TrainingLabels(cfg) # {0, 1, 2}
    THEN "KeyError: report label"
    ELSE "ok"

\* The label whose report entry _evaluate_model stores as the metrics of each
\* outcome: precision_home = report['0'], precision_away = report['1'],
\* precision_draw = report['2'] (recall and f1 alike).
EvaluationLabel == [H |-> 0, A |-> 1, D |-> 2]

\* The entry of prediction_proba _make_prediction reads as the probability
\* of each outcome: home [0], away [1], draw [2].
InferenceIndex == [H |-> 0, A |-> 1, D |-> 2]

\* _train_model_by_type up to the call of the library's fit: "ok" when the
\* family is known and its hyperparameters can be read, else str(e) of the
\* exception (None has no attribute get).
TrainModelByType(cfg) ==
  IF cfg.hyperparameters = "None" /\ cfg.model_type \in KnownModelTypes
    THEN "AttributeError"
  ELSE IF cfg.model_type \notin KnownModelTypes THEN "Unknown model type"
  ELSE "ok"

\* Lines 41-63 of train_model: str(e) of the first exception raised before
\* _save_model, or "ok". train_test_split comes before the model type is
\* looked at; fit needs a label in y_train.
TrainSteps(cfg, library) ==
  IF TrainingMatches(cfg) = {} THEN "No training data available"
  ELSE IF ~library.ok \/ FitLabels(cfg, library) = {} THEN "LibraryError"
  ELSE IF "model_type" \notin cfg.keys THEN "KeyError: model_type"
  ELSE IF TrainModelByType(cfg) # "ok" THEN TrainModelByType(cfg)
  ELSE IF EvaluateModel(cfg, library) # "ok" THEN EvaluateModel(cfg, library)
  ELSE IF "model_name" \notin cfg.keys THEN "KeyError: model_name"
  ELSE "ok"

\* The except branch of train_model: the error result reads
\* training_config['model_name'], which raises when the key is absent.
ErrorResult(cfg, error) ==
  IF "model_name" \in cfg.keys
    THEN [status |-> "error", model_name |-> cfg.model_name, detail |-> error]
    ELSE [status |-> "raised", model_name |-> None, detail |-> "KeyError"]

SuccessResult(model_name, model_version) ==
  [status |-> "success", model_name |-> model_name, detail |-> "ok",
   model_version |-> model_version]

NoResult == [status |-> "none"]

Idle == [pc |-> "idle"]

\* No predictor call has ended yet.
NoResponse == [op |-> "none"]

\* No transaction holds the database's write lock.
NoTx == [pc |-> "none"]

\* _save_model: the version is the clock's second, the file is written under
\* f"{model_name}_{model_version}.pkl" whether or not it exists.
SaveModel(dir, model, model_name, model_type, feature_columns, clock) ==
  (ModelFilename(model_name, Strftime(clock)) :>
     [model |-> model,
      model_type |-> model_type,
      feature_columns |-> feature_columns,
      version |-> Strftime(clock),
      created_at |-> clock]) @@ dir

\* Mutant of NewPerformance: the new row is inserted as the active one.
NewPerformance_Active(id, model_name, model_version, clock) ==
  [id |-> id, model_name |-> model_name, model_version |-> model_version,
   training_date |-> clock, is_active |-> TRUE]

\* _save_performance_metrics: the new row, never active.
NewPerformance(id, model_name, model_version, clock) ==
  [id |-> id, model_name |-> model_name, model_version |-> model_version,
   training_date |-> clock, is_active |-> FALSE]

Init ==
  /\ now = 0
  /\ files = <<>>
  /\ performance = {}
  /\ perfSeq = 0
  /\ runs = 0
  /\ predictions = <<>>
  /\ trainer = [t \in Trainers |-> Idle]
  /\ trainResult = NoResult
  /\ tx = NoTx
  /\ response = NoResponse
  /\ matches = Matches

\* Time passes.
Tick ==
  /\ now < MaxClock
  /\ now' = now + 1
  /\ UNCHANGED <<files, performance, perfSeq, runs, predictions, trainer, trainResult, tx, response, matches>>

\* A background task starts train_model(cfg) and runs it up to the evaluation.
TrainStart(t, cfg, library) ==
  /\ trainer[t].pc = "idle"
  /\ LET step == TrainSteps(cfg, library) IN
       IF step = "ok"
         THEN /\ runs < MaxRuns
              /\ runs' = runs + 1
              /\ trainer' = [trainer EXCEPT ![t] =
                   [pc |-> "fitted", model_name |-> cfg.model_name,
                    model_type |-> cfg.model_type,
                    model |-> [fitted_by |-> t, model_name |-> cfg.model_name,
                               classes |-> FittedClasses(cfg, library),
                               rows |-> {m.id : m \in TrainingMatches(cfg)}]]]
              /\ trainResult' = trainResult
         ELSE /\ runs' = runs
              /\ trainer' = trainer
              /\ trainResult' = ErrorResult(cfg, step)
  /\ UNCHANGED <<now, files, performance, perfSeq, predictions, tx, response, matches>>

\* train_model calls _save_model.
TrainSaveModel(t) ==
  /\ trainer[t].pc = "fitted"
  /\ files' = SaveModel(files, trainer[t].model, trainer[t].model_name,
                        trainer[t].model_type, GetFeatureColumns, now)
  /\ trainer' = [trainer EXCEPT ![t] =
        [pc |-> "saved", model_name |-> trainer[t].model_name,
         model_type |-> trainer[t].model_type, model_version |-> Strftime(now)]]
  /\ UNCHANGED <<now, performance, perfSeq, runs, predictions, trainResult, tx, response, matches>>

\* train_model calls _save_performance_metrics (add and commit) and returns.
TrainSavePerformance(t) ==
  /\ trainer[t].pc = "saved"
  /\ tx = NoTx
  /\ performance' = performance \cup
        {NewPerformance(perfSeq + 1, trainer[t].model_name,
                        trainer[t].model_version, now)}
  /\ perfSeq' = perfSeq + 1
  /\ trainer' = [trainer EXCEPT ![t] = Idle]
  /\ trainResult' = SuccessResult(trainer[t].model_name, trainer[t].model_version)
  /\ UNCHANGED <<now, files, runs, predictions, tx, response, matches>>

\* train_model calls _save_performance_metrics and its commit raises (the
\* database is locked or cannot be written): the except branch returns the
\* error result. The file _save_model wrote stays.
TrainSavePerformanceFails(t) ==
  /\ trainer[t].pc = "saved"
  /\ trainer' = [trainer EXCEPT ![t] = Idle]
  /\ trainResult' = [status |-> "error", model_name |-> trainer[t].model_name,
                     detail |-> "OperationalError"]
  /\ UNCHANGED <<now, files, performance, perfSeq, runs, predictions, tx, response, matches>>

\* ----------------------------------------------------------- registry
RowsOf(rows, model_name) == {r \in rows : r.model_name = model_name}

ActiveRows(rows, model_name) == {r \in RowsOf(rows, model_name) : r.is_active}

\* Mutant of ClearActive: the UPDATE has no filter on the name.
ClearActive_AllNames(rows, model_name) ==
  {[r EXCEPT !.is_active = FALSE] : r \in rows}

\* Mutant of ClearActive: the UPDATE that deactivates the name's rows is left out.
ClearActive_Skipped(rows, model_name) == rows

\* query(ModelPerformance).filter(model_name == ...).update({"is_active": False})
ClearActive(rows, model_name) ==
  {IF r.model_name = model_name THEN [r EXCEPT !.is_active = FALSE] ELSE r : r \in rows}

\* .order_by(training_date.desc()).first(): the rows among which the database
\* picks one. training_date has microsecond resolution, so of two rows of the
\* same second the one inserted later (the larger id) is the later one.
LatestRows(rows, model_name) ==
  {r \in RowsOf(rows, model_name) :
     \A o \in RowsOf(rows, model_name) :
        \/ o.training_date < r.training_date
        \/ (o.training_date = r.training_date /\ o.id <= r.id)}

\* latest_model.is_active = True
SetActive(rows, row) ==
  {IF r.id = row.id THEN [r EXCEPT !.is_active = TRUE] ELSE r : r \in rows}

\* Mutant of VisibleBeforeCommit: a commit right after the UPDATE publishes the
\* cleared flags before the latest row is set.
VisibleBeforeCommit_Early(committed, pending) == pending

\* What other sessions read of model_performance while activate_model has
\* executed its UPDATE and not yet its commit (there is one commit, at the end).
VisibleBeforeCommit(committed, pending) == committed

\* The versions a caller may mean when it asks to activate model_name.
RequestVersions(model_name) ==
  IF RowsOf(performance, model_name) = {} THEN {None}
  ELSE {r.model_version : r \in RowsOf(performance, model_name)}

\* activate_model, first statement: the UPDATE opens the transaction, which
\* holds the database's write lock until it commits or rolls back. The
\* endpoint takes no version: `requested` is the version the caller means.
ActivateBegin(model_name, requested) ==
  /\ tx = NoTx
  /\ tx' = [pc |-> "cleared", model_name |-> model_name, requested |-> requested,
            pending |-> ClearActive(performance, model_name)]
  /\ performance' = VisibleBeforeCommit(performance, tx'.pending)
  /\ UNCHANGED <<now, files, perfSeq, runs, predictions, trainer, trainResult, response, matches>>

\* activate_model, the rest: select the latest row, 404 (and roll back) when
\* there is none, else set its flag and commit.
ActivateFinish ==
  /\ tx.pc = "cleared"
  /\ IF LatestRows(tx.pending, tx.model_name) = {}
       THEN /\ performance' = performance
            /\ response' = [op |-> "activate", status |-> 404,
                            model_name |-> tx.model_name, version |-> None]
       ELSE \E latest_model \in LatestRows(tx.pending, tx.model_name) :
              /\ performance' = SetActive(tx.pending, latest_model)
              /\ response' = [op |-> "activate", status |-> 200,
                              model_name |-> tx.model_name,
                              version |-> latest_model.model_version]
  /\ tx' = NoTx
  /\ UNCHANGED <<now, files, perfSeq, runs, predictions, trainer, trainResult, matches>>

\* Mutant of DeletePredictions: the filter matches the name as a prefix.
DeletePredictions_ByPrefix(table, model_name) ==
  SelectSeq(table, LAMBDA p : ~StartsWith(p.model_name, model_name))

\* query(Prediction).filter(Prediction.model_name == model_name).delete()
DeletePredictions(table, model_name) ==
  SelectSeq(table, LAMBDA p : p.model_name # model_name)

\* query(ModelPerformance).filter(ModelPerformance.model_name == model_name).delete()
DeletePerformance(rows, model_name) ==
  {r \in rows : r.model_name # model_name}

\* delete_model: the predictions and the performance rows of the name go, in
\* one transaction; the models directory is not touched.
DeleteModel(model_name) ==
  /\ tx = NoTx
  /\ predictions' = DeletePredictions(predictions, model_name)
  /\ performance' = DeletePerformance(performance, model_name)
  /\ UNCHANGED <<now, files, perfSeq, runs, trainer, trainResult, tx, response, matches>>

\* Mutant of TrainingStatus: the query has no filter on the name.
TrainingStatus_AnyName(rows, model_name) ==
  IF rows # {} THEN "completed" ELSE "training"

\* get_training_status: "completed" when the query for the latest row of the
\* name gives a row, else "training".
TrainingStatus(rows, model_name) ==
  IF LatestRows(rows, model_name) # {} THEN "completed" ELSE "training"

\* A request GET /train/status/{model_name} ends.
GetTrainingStatus(model_name) ==
  /\ response' = [op |-> "status", model_name |-> model_name,
                  status |-> TrainingStatus(performance, model_name)]
  /\ UNCHANGED <<now, files, performance, perfSeq, runs, predictions, trainer, trainResult, tx, matches>>

\* The configs of well-formed requests that can train on all finished matches.
PlainConfigs ==
  {cfg \in Configs :
     /\ cfg.keys = {"model_name", "model_type"}
     /\ cfg.model_type \in KnownModelTypes
     /\ cfg.league = NoFilter /\ cfg.season = NoFilter
     /\ cfg.hyperparameters = "dict"}

NextRegistry ==
  \/ Tick
  \/ \E t \in Trainers, cfg \in PlainConfigs, library \in PlainLibraryArgs :
       TrainStart(t, cfg, library)
  \/ \E t \in Trainers : TrainSaveModel(t)
  \/ \E t \in Trainers : TrainSavePerformance(t)
  \/ \E n \in ModelNames : \E v \in RequestVersions(n) : ActivateBegin(n, v)
  \/ ActivateFinish
  \/ \E n \in ModelNames : DeleteModel(n)

SpecRegistry == Init /\ [][NextRegistry]_vars

\* Status queries, with the training runs of one worker that go through or
\* fail in the library, and deletions.
NextStatus ==
  \/ \E cfg \in PlainConfigs, library \in PlainLibraryArgs : TrainStart(1, cfg, library)
  \/ TrainSaveModel(1)
  \/ TrainSavePerformance(1)
  \/ \E n \in ModelNames : DeleteModel(n)
  \/ \E n \in ModelNames : GetTrainingStatus(n)

SpecStatus == Init /\ [][NextStatus]_vars

\* The trainer alone, on every training_config.
NextTrainer ==
  \/ Tick
  \/ \E t \in Trainers, cfg \in Configs, library \in PlainLibraryArgs :
       TrainStart(t, cfg, library)
  \/ \E t \in Trainers : TrainSaveModel(t)
  \/ \E t \in Trainers : TrainSavePerformance(t)
  \/ \E t \in Trainers : TrainSavePerformanceFails(t)

SpecTrainer == Init /\ [][NextTrainer]_vars

\* One trainer on the plain configs, with every answer of train_test_split.
NextSplit ==
  \/ Tick
  \/ \E cfg \in PlainConfigs, library \in LibraryArgs :
       TrainStart(1, cfg, library)
  \/ TrainSaveModel(1)
  \/ TrainSavePerformance(1)

SpecSplit == Init /\ [][NextSplit]_vars

\* ---------------------------------------------------------- predictor
MatchIds == {m.id : m \in Matches}

\* _load_model: the file name is built from the given version, or is the last
\* of the sorted names that start with f"{model_name}_" and end with ".pkl".
LoadModel(dir, model_name, model_version) ==
  LET model_files ==
        {f \in DOMAIN dir :
           StartsWith(f, model_name \o <<"_">>) /\ EndsWith(f, PklSuffix)}
      model_filename ==
        IF model_version # None THEN ModelFilename(model_name, model_version)
        ELSE IF model_files = {} THEN None
        ELSE SortedLast(model_files)
  IN  IF model_version = None /\ model_files = {}
        THEN [ok |-> FALSE, error |-> "No model found", filename |-> None]
      ELSE IF model_filename \notin DOMAIN dir
        THEN [ok |-> FALSE, error |-> "Model file not found", filename |-> model_filename]
      ELSE [ok |-> TRUE, error |-> "", filename |-> model_filename]

CreateFeaturesColumnSet == Range(CreateFeaturesColumns)

\* _prepare_match_features: df_with_features[feature_columns] raises KeyError
\* when a listed column is not in the frame, and otherwise gives the listed
\* columns in the listed order.
PrepareMatchFeatures(feature_columns) ==
  IF \A i \in 1..Len(feature_columns) : feature_columns[i] \in CreateFeaturesColumnSet
    THEN [ok |-> TRUE, columns |-> feature_columns]
    ELSE [ok |-> FALSE, columns |-> <<>>]

\* np.max of a probability vector.
MaxOf(proba) == CHOOSE x \in Range(proba) : \A y \in Range(proba) : y <= x

\* The first index of the largest entry (np.argmax, and what the library's
\* predict does with the probabilities).
ArgMax(proba) ==
  CHOOSE i \in DOMAIN proba :
    \A j \in DOMAIN proba : proba[j] < proba[i] \/ (proba[j] = proba[i] /\ i <= j)

\* Mutant of OutcomeMap: the letters of classes 1 and 2 are exchanged.
OutcomeMap_DrawBeforeAway == [c \in {0, 1, 2} |-> <<"H", "D", "A">>[c + 1]]

\* outcome_map = {0: 'H', 1: 'A', 2: 'D'}
OutcomeMap == [c \in {0, 1, 2} |-> <<"H", "A", "D">>[c + 1]]

\* Mutant of MakePrediction: the confidence is the home probability.
MakePrediction_HomeConfidence(model, proba) ==
  IF proba = None THEN [ok |-> FALSE, error |-> "LibraryError"]
  ELSE IF Len(proba) < 3 THEN [ok |-> FALSE, error |-> "IndexError"]
  ELSE [ok |-> TRUE,
        predicted_outcome |-> OutcomeMap[model.classes[ArgMax(proba)]],
        home_win_probability |-> proba[1],
        draw_probability |-> proba[3],
        away_win_probability |-> proba[2],
        overall_confidence |-> proba[1]]

\* _make_prediction: proba is prediction_proba, the row predict_proba gives
\* (the softmax row for the network), in units of 1/ProbaScale, None when the
\* library raises. prediction_class is the model's class of the largest
\* entry; home, away, draw are entries 0, 1, 2, and entry 2 of a shorter row
\* raises IndexError.
MakePrediction(model, proba) ==
  IF proba = None THEN [ok |-> FALSE, error |-> "LibraryError"]
  ELSE IF Len(proba) < 3 THEN [ok |-> FALSE, error |-> "IndexError"]
  ELSE [ok |-> TRUE,
        predicted_outcome |-> OutcomeMap[model.classes[ArgMax(proba)]],
        home_win_probability |-> proba[1],
        draw_probability |-> proba[3],
        away_win_probability |-> proba[2],
        overall_confidence |-> MaxOf(proba)]

\* The id the database gives a new row of predictions.
NextPredictionId(table) ==
  IF table = <<>> THEN 1 ELSE table[Len(table)].id + 1

\* _save_prediction: model_version is the caller's argument as given; the
\* columns is_correct, actual_outcome, actual_home_score, actual_away_score
\* are not set and take their default, None;
\* Prediction.model_version is nullable=False, so the commit of a row whose
\* model_version is None fails.
SavePrediction(table, match_id, model_name, model_version, prediction_result, columns) ==
  IF model_version = None
    THEN [ok |-> FALSE, table |-> table]
    ELSE [ok |-> TRUE,
          table |-> Append(table,
             [id |-> NextPredictionId(table), match_id |-> match_id,
              model_name |-> model_name, model_version |-> model_version,
              predicted_outcome |-> prediction_result.predicted_outcome,
              home_win_probability |-> prediction_result.home_win_probability,
              draw_probability |-> prediction_result.draw_probability,
              away_win_probability |-> prediction_result.away_win_probability,
              overall_confidence |-> prediction_result.overall_confidence,
              prediction_features |-> columns,
              is_correct |-> "None", actual_outcome |-> "None",
              actual_home_score |-> NoScore, actual_away_score |-> NoScore])]

\* No prediction_result: _make_prediction was not reached or raised.
NoPrediction == [predicted_outcome |-> "None"]

PredictionFailed(table, match_id, error, artifact) ==
  [ok |-> FALSE, match_id |-> match_id, error |-> error, table |-> table,
   prediction_id |-> 0, artifact |-> artifact, prediction |-> NoPrediction]

\* ModelPredictor.predict_match: the rows of predictions after the call and
\* what the call gives (ok = FALSE: it raised "Prediction failed: <error>").
\* artifact is the file that was unpickled, None when none was. proba is
\* what the library's predict_proba gives in _make_prediction.
PredictMatch(dir, table, match_id, model_name, model_version, proba) ==
  IF match_id \notin MatchIds
    THEN PredictionFailed(table, match_id, "Match not found", None)
  ELSE LET loaded == LoadModel(dir, model_name, model_version) IN
    IF ~loaded.ok
      THEN PredictionFailed(table, match_id, loaded.error, None)
    ELSE LET features == PrepareMatchFeatures(dir[loaded.filename].feature_columns) IN
      IF ~features.ok
        THEN PredictionFailed(table, match_id, "KeyError", loaded.filename)
      ELSE LET prediction_result == MakePrediction(dir[loaded.filename].model, proba) IN
        IF ~prediction_result.ok
          THEN PredictionFailed(table, match_id, prediction_result.error, loaded.filename)
        ELSE LET saved == SavePrediction(table, match_id, model_name, model_version,
                                         prediction_result, features.columns) IN
          IF ~saved.ok
            THEN PredictionFailed(table, match_id, "IntegrityError", loaded.filename)
            ELSE [ok |-> TRUE, match_id |-> match_id, error |-> "",
                  table |-> saved.table,
                  prediction_id |-> NextPredictionId(table),
                  artifact |-> loaded.filename,
                  prediction |-> prediction_result]

\* One entry of the list predict_matches_batch returns.
BatchEntry(one) ==
  IF one.ok
    THEN [match_id |-> one.match_id, kind |-> "prediction",
          prediction_id |-> one.prediction_id]
    ELSE [match_id |-> one.match_id, kind |-> "error", error |-> one.error]

\* One turn of the loop of predict_matches_batch. The calls of a batch share
\* one Session: after a commit that failed in its flush the Session refuses
\* every statement until rollback(), which the code never calls, so the
\* query for the match raises.
BatchCall(dir, table, rollback_pending, match_id, model_name, model_version, proba) ==
  IF rollback_pending
    THEN PredictionFailed(table, match_id, "PendingRollbackError", None)
    ELSE PredictMatch(dir, table, match_id, model_name, model_version, proba)

\* Mutant of PredictMatchesBatch: no try/except around the call of
\* predict_match, so the first failing id ends the batch with an exception.
RECURSIVE PredictMatchesBatch_NoCatch(_, _, _, _, _, _, _)
PredictMatchesBatch_NoCatch(dir, table, rollback_pending, match_ids, model_name, model_version, proba) ==
  IF match_ids = <<>> THEN [raised |-> FALSE, table |-> table, predictions |-> <<>>]
  ELSE LET one == BatchCall(dir, table, rollback_pending, Head(match_ids),
                            model_name, model_version, proba) IN
    IF ~one.ok THEN [raised |-> TRUE, table |-> table, predictions |-> <<>>]
    ELSE LET rest == PredictMatchesBatch_NoCatch(dir, one.table, rollback_pending,
                                                 Tail(match_ids), model_name,
                                                 model_version, proba)
         IN [raised |-> rest.raised, table |-> rest.table,
             predictions |-> IF rest.raised THEN <<>>
                             ELSE <<BatchEntry(one)>> \o rest.predictions]

\* ModelPredictor.predict_matches_batch: the ids in turn, each in its own
\* try/except, a failure appended as an error entry.
RECURSIVE PredictMatchesBatch(_, _, _, _, _, _, _)
PredictMatchesBatch(dir, table, rollback_pending, match_ids, model_name, model_version, proba) ==
  IF match_ids = <<>> THEN [raised |-> FALSE, table |-> table, predictions |-> <<>>]
  ELSE LET one == BatchCall(dir, table, rollback_pending, Head(match_ids),
                            model_name, model_version, proba)
           rest == PredictMatchesBatch(dir, one.table,
                                       rollback_pending \/ one.error = "IntegrityError",
                                       Tail(match_ids), model_name, model_version,
                                       proba)
       IN [raised |-> rest.raised, table |-> rest.table,
           predictions |-> <<BatchEntry(one)>> \o rest.predictions]

\* The match ids and versions requests carry: 9 is the id of no match.
MatchIdArgs == {1, 9}

\* model_version is any string of the request: none, the versions _save_model
\* can give, and one that starts with the tail of the longer model name.
VersionArgs ==
  {None} \cup {Strftime(t) : t \in 0..MaxClock} \cup {<<"x", "_">> \o Strftime(0)}

\* The versions batch requests carry: none, the one of the clock second the
\* runs fall in, and one that is not stored.
BatchVersionArgs == {None, Strftime(0), Strftime(MaxClock)}

BatchArgs == UNION {[1..n -> MatchIdArgs] : n \in 0..MaxBatch}

\* The rows predict_proba can give for a model of n classes: n multiples of
\* 1/ProbaScale that sum to 1.
ProbaVectors(n) ==
  {p \in [1..n -> 0..ProbaScale] :
     LET RECURSIVE Sum(_)
         Sum(k) == IF k = 0 THEN 0 ELSE p[k] + Sum(k - 1)
     IN  Sum(n) = ProbaScale}

\* What the library gives in the predictor's calls: it raises, or gives a row.
ProbaArgs == {None} \cup ProbaVectors(1) \cup ProbaVectors(2) \cup ProbaVectors(3)

\* The library raises, or gives the row of a certain home win.
PlainProbaArgs == {None, <<ProbaScale, 0, 0>>}

\* The row of predict_proba has one entry per class of the loaded model.
ProbaFits(dir, model_name, model_version, proba) ==
  LET loaded == LoadModel(dir, model_name, model_version) IN
    (loaded.ok /\ proba # None) => Len(proba) = Len(dir[loaded.filename].model.classes)

\* The status code of POST /predict: the endpoint raises HTTPException(404)
\* for a missing match inside its own try, whose `except Exception` catches
\* it like every exception of the predictor and raises HTTPException(500).
PredictStatus(match_id, ok) ==
  LET raised == IF match_id \notin MatchIds THEN "HTTPException(404)"
                ELSE IF ~ok THEN "Exception"
                ELSE "none"
  IN  IF raised = "none" THEN 200 ELSE 500

\* A request POST /predict ends: the endpoint looks the match up and calls
\* predict_match.
PredictOne(match_id, model_name, model_version, proba) ==
  /\ tx = NoTx
  /\ ProbaFits(files, model_name, model_version, proba)
  /\ LET one == PredictMatch(files, predictions, match_id, model_name, model_version,
                             proba) IN
       /\ \A i \in 1..Len(one.table) : one.table[i].id <= MaxPred
       /\ predictions' = one.table
       /\ response' = [op |-> "predict", match_id |-> match_id,
                       model_name |-> model_name, model_version |-> model_version,
                       ok |-> one.ok, error |-> one.error,
                       status |-> PredictStatus(match_id, one.ok),
                       prediction_id |-> one.prediction_id, artifact |-> one.artifact,
                       prediction |-> one.prediction]
  /\ UNCHANGED <<now, files, performance, perfSeq, runs, trainer, trainResult, tx, matches>>

\* A call of predict_matches_batch ends.
PredictBatch(match_ids, model_name, model_version, proba) ==
  /\ tx = NoTx
  /\ ProbaFits(files, model_name, model_version, proba)
  /\ LET batch == PredictMatchesBatch(files, predictions, FALSE, match_ids,
                                      model_name, model_version, proba) IN
       /\ \A i \in 1..Len(batch.table) : batch.table[i].id <= MaxPred
       /\ predictions' = batch.table
       /\ response' = [op |-> "batch", match_ids |-> match_ids,
                       model_name |-> model_name, model_version |-> model_version,
                       raised |-> batch.raised, predictions |-> batch.predictions]
  /\ UNCHANGED <<now, files, performance, perfSeq, runs, trainer, trainResult, tx, matches>>

\* The versions stored under a model name: what _save_model wrote for it.
StoredVersions(dir, model_name) ==
  {dir[f].version : f \in {g \in DOMAIN dir : dir[g].model.model_name = model_name}}

\* Single predictions and the deletion of a model, with the training runs of
\* one worker that go through and fill the models directory.
NextPredictor ==
  \/ Tick
  \/ \E cfg \in PlainConfigs : TrainStart(1, cfg, LibraryFine)
  \/ TrainSaveModel(1)
  \/ TrainSavePerformance(1)
  \/ \E id \in MatchIdArgs, n \in ModelNames, v \in VersionArgs, proba \in PlainProbaArgs :
       PredictOne(id, n, v, proba)
  \/ \E n \in ModelNames : DeleteModel(n)

SpecPredictor == Init /\ [][NextPredictor]_vars

\* Batch predictions, with the training runs of one worker that go through,
\* within one clock second.
NextBatch ==
  \/ \E cfg \in PlainConfigs : TrainStart(1, cfg, LibraryFine)
  \/ TrainSaveModel(1)
  \/ TrainSavePerformance(1)
  \/ \E ids \in BatchArgs, n \in ModelNames, v \in BatchVersionArgs, proba \in PlainProbaArgs :
       PredictBatch(ids, n, v, proba)

SpecBatch == Init /\ [][NextBatch]_vars

\* ------------------------------------------------- claims: the registry
\* C1: in every committed state, at most one model_performance row per model
\* name has is_active = true.
C1_AtMostOneActive ==
  \A n \in ModelNames : Cardinality(ActiveRows(performance, n)) <= 1

\* C1 witness: a name with two rows, one of them active, no activation open.
C1_Witness ==
  \E n \in ModelNames :
    /\ tx = NoTx
    /\ Cardinality(RowsOf(performance, n)) >= 2
    /\ Cardinality(ActiveRows(performance, n)) = 1

\* C2: an activation that completes for a name that has rows leaves exactly
\* one active row of the name, and from then on every committed state has
\* exactly one active row of the name until the name is deleted -- whatever
\* activations and training inserts come in between.
C2_ActivateAtomic ==
  [][\A n \in ModelNames :
       /\ (/\ tx.pc = "cleared"
           /\ tx.model_name = n
           /\ tx'.pc = "none"
           /\ RowsOf(performance', n) # {})
            => Cardinality(ActiveRows(performance', n)) = 1
       /\ Cardinality(ActiveRows(performance, n)) = 1
            => \/ Cardinality(ActiveRows(performance', n)) = 1
               \/ RowsOf(performance', n) = {}]_vars

\* C2 witness: an activation of a name is between its UPDATE and its commit
\* while the name, activated before, has its one active row, and a training
\* run of the same name is about to insert its row.
C2_Witness ==
  /\ tx.pc = "cleared"
  /\ Cardinality(ActiveRows(performance, tx.model_name)) = 1
  /\ Cardinality(ActiveRows(tx.pending, tx.model_name)) = 0
  /\ \E t \in Trainers :
       trainer[t].pc = "saved" /\ trainer[t].model_name = tx.model_name

\* C3 (as claimed): when activate(name, version) completes for an existing
\* version of the name, exactly one row of the name is active and it is the
\* row of that version.
C3_ActivatesGivenVersion ==
  [][(tx.pc = "cleared" /\ tx'.pc = "none" /\ tx.requested # None)
       => /\ Cardinality(ActiveRows(performance', tx.model_name)) = 1
          /\ \A r \in ActiveRows(performance', tx.model_name) :
               r.model_version = tx.requested]_vars

\* -------------------------------------------------- claims: the trainer
\* C7 (as claimed): train_model returns a result with status success or
\* error for every training_config and never raises; an error result carries
\* the model name and a message.
C7_TrainNeverRaises ==
  /\ trainResult.status \in {"none", "success", "error"}
  /\ trainResult.status = "error"
       => trainResult.model_name \in ModelNames /\ trainResult.detail # "ok"

\* C10 (as claimed): _save_model always writes a file that was not there, and
\* no file of the models directory ever changes or disappears.
C10_ArtifactsImmutable ==
  [][/\ \A t \in Trainers :
          (trainer[t].pc = "fitted" /\ trainer'[t].pc = "saved")
            => ModelFilename(trainer'[t].model_name, trainer'[t].model_version)
                 \notin DOMAIN files
     /\ \A f \in DOMAIN files :
          f \in DOMAIN files' /\ files'[f] = files[f]]_vars

\* The floats a PredictionCreate body may carry, in units of 1/ProbaScale.
ProbabilityArgs == 0..ProbaScale

\* The bodies of POST /api/predictions/ (PredictionCreate; the optional
\* fields are left out), with any home probability and any confidence.
PredictionCreateArgs ==
  [match_id : MatchIdArgs,
   model_name : {<<"m">>},
   model_version : {Strftime(0)},
   predicted_outcome : {"H"},
   home_win_probability : ProbabilityArgs,
   draw_probability : {0},
   away_win_probability : {0},
   overall_confidence : ProbabilityArgs]

\* create_prediction: 400 when the match does not exist, else the row
\* Prediction(**prediction.dict()) is added and committed.
CreatePrediction(prediction) ==
  /\ tx = NoTx
  /\ IF prediction.match_id \notin MatchIds
       THEN /\ predictions' = predictions
            /\ response' = [op |-> "create", ok |-> FALSE, status |-> 400,
                            prediction_id |-> 0]
       ELSE /\ NextPredictionId(predictions) <= MaxPred
            /\ predictions' = Append(predictions,
                 [id |-> NextPredictionId(predictions),
                  match_id |-> prediction.match_id,
                  model_name |-> prediction.model_name,
                  model_version |-> prediction.model_version,
                  predicted_outcome |-> prediction.predicted_outcome,
                  home_win_probability |-> prediction.home_win_probability,
                  draw_probability |-> prediction.draw_probability,
                  away_win_probability |-> prediction.away_win_probability,
                  overall_confidence |-> prediction.overall_confidence,
                  prediction_features |-> None,
                  is_correct |-> "None", actual_outcome |-> "None",
                  actual_home_score |-> NoScore, actual_away_score |-> NoScore])
            /\ response' = [op |-> "create", ok |-> TRUE, status |-> 200,
                            prediction_id |-> NextPredictionId(predictions)]
  /\ UNCHANGED <<now, files, performance, perfSeq, runs, trainer, trainResult, tx, matches>>

\* The two writers of predictions, on every row the library can give and the
\* version of the clock second, with the training runs of one worker that go
\* through, within that second.
NextProbabilities ==
  \/ \E cfg \in PlainConfigs : TrainStart(1, cfg, LibraryFine)
  \/ TrainSaveModel(1)
  \/ TrainSavePerformance(1)
  \/ \E id \in MatchIdArgs, n \in ModelNames, proba \in ProbaArgs :
       PredictOne(id, n, Strftime(0), proba)
  \/ \E prediction \in PredictionCreateArgs : CreatePrediction(prediction)

SpecProbabilities == Init /\ [][NextProbabilities]_vars

\* ------------------------------------------------------------ matches
\* Largest score a MatchUpdate body carries.
MaxScore == 1

\* A score of a MatchUpdate body: null or a number.
ScoreArgs == {NoScore} \cup 0..MaxScore

\* The bodies of PUT /api/matches/{match_id}: set holds the fields the body
\* sets (dict(exclude_unset=True)), among the two final scores.
MatchUpdateArgs ==
  [set : SUBSET {"home_score", "away_score"}, home_score : ScoreArgs, away_score : ScoreArgs]

\* The ids update requests carry: the scheduled match and the id of no match.
MatchUpdateIds == {2, 9}

\* for field, value in match_update.dict(exclude_unset=True).items():
\*     setattr(db_match, field, value)
ApplyMatchUpdate(db_match, match_update) ==
  [db_match EXCEPT
     !.home_score = IF "home_score" \in match_update.set
                      THEN match_update.home_score ELSE @,
     !.away_score = IF "away_score" \in match_update.set
                      THEN match_update.away_score ELSE @]

\* The row of matches with the given id.
MatchOf(rows, match_id) == CHOOSE m \in rows : m.id = match_id

\* update_match: 404 when the match does not exist, else the fields of the
\* body are set on the row and committed; no other table is written.
UpdateMatch(match_id, match_update) ==
  /\ tx = NoTx
  /\ IF match_id \notin MatchIds
       THEN /\ matches' = matches
            /\ response' = [op |-> "update_match", status |-> 404, result |-> "None"]
       ELSE LET db_match == ApplyMatchUpdate(MatchOf(matches, match_id), match_update) IN
            /\ matches' = (matches \ {MatchOf(matches, match_id)}) \cup {db_match}
            /\ response' = [op |-> "update_match", status |-> 200,
                            result |-> Result(db_match)]
  /\ UNCHANGED <<now, files, performance, perfSeq, runs, predictions, trainer, trainResult, tx>>

\* The bodies of POST /api/predictions/ for the finished and the scheduled
\* match, with a certain home win or a certain away win.
GroundTruthCreateArgs ==
  {[match_id |-> id, model_name |-> <<"m">>, model_version |-> Strftime(0),
    predicted_outcome |-> o,
    home_win_probability |-> IF o = "H" THEN ProbaScale ELSE 0,
    draw_probability |-> 0,
    away_win_probability |-> IF o = "A" THEN ProbaScale ELSE 0,
    overall_confidence |-> ProbaScale] : id \in {1, 2}, o \in {"H", "A"}}

\* Predictions are written by both writers while results come in.
NextGroundTruth ==
  \/ \E cfg \in PlainConfigs : TrainStart(1, cfg, LibraryFine)
  \/ TrainSaveModel(1)
  \/ TrainSavePerformance(1)
  \/ \E n \in ModelNames : PredictOne(2, n, Strftime(0), <<ProbaScale, 0, 0>>)
  \/ \E prediction \in GroundTruthCreateArgs : CreatePrediction(prediction)
  \/ \E id \in MatchUpdateIds, match_update \in MatchUpdateArgs :
       UpdateMatch(id, match_update)

\* Every request that can be served is served in the end.
SpecGroundTruth == Init /\ [][NextGroundTruth]_vars /\ WF_vars(NextGroundTruth)

\* The training_configs of requests for a network of one name, with and
\* without a league and a season.
FilterConfigs ==
  [keys : {{"model_name", "model_type"}},
   model_name : {<<"m">>},
   model_type : {"neural_network"},
   league : {NoFilter, "PL", "L2"},
   season : {NoFilter, "2024"},
   hyperparameters : {"dict"}]

\* Training runs of one worker while results come in.
NextTrainingData ==
  \/ Tick
  \/ \E cfg \in FilterConfigs : TrainStart(1, cfg, LibraryFine)
  \/ TrainSaveModel(1)
  \/ TrainSavePerformance(1)
  \/ \E id \in MatchUpdateIds, match_update \in MatchUpdateArgs :
       UpdateMatch(id, match_update)

SpecTrainingData == Init /\ [][NextTrainingData]_vars

\* Activations between the training runs of one worker and the insertion of
\* predictions.
NextActivate ==
  \/ Tick
  \/ \E cfg \in PlainConfigs : TrainStart(1, cfg, LibraryFine)
  \/ TrainSaveModel(1)
  \/ TrainSavePerformance(1)
  \/ \E n \in ModelNames : \E v \in RequestVersions(n) : ActivateBegin(n, v)
  \/ ActivateFinish
  \/ \E prediction \in GroundTruthCreateArgs : CreatePrediction(prediction)

SpecActivate == Init /\ [][NextActivate]_vars

\* ------------------------------------------------ claims: the predictor

\* C4: when the version is omitted, loading a name with stored versions
\* resolves to the artifact of that name whose version string is the
\* lexicographic maximum of the versions stored for the name.
C4_LatestVersionResolved ==
  \A n \in ModelNames :
    StoredVersions(files, n) # {} =>
      LET loaded == LoadModel(files, n, None) IN
        /\ loaded.ok
        /\ files[loaded.filename].version = SortedLast(StoredVersions(files, n))

\* C5: load(name, version?) only returns an artifact that was stored under
\* exactly that name and, when a version is given, exactly that version.
C5_LoadKeyedByNameVersion ==
  \A n \in ModelNames, v \in VersionArgs :
    LET loaded == LoadModel(files, n, v) IN
      loaded.ok =>
        /\ files[loaded.filename].model.model_name = n
        /\ v # None => files[loaded.filename].version = v

C9_OmittedVersionRecorded ==
  [][\A id \in MatchIds, n \in ModelNames, proba \in ProbaVectors(3) :
       (PredictOne(id, n, None, proba) /\ StoredVersions(files, n) # {})
       => /\ response'.ok
          /\ Len(predictions') = Len(predictions) + 1
          /\ predictions'[Len(predictions')].model_name = n
          /\ predictions'[Len(predictions')].model_version =
                SortedLast(StoredVersions(files, n))]_vars

\* C6: predict_matches_batch returns one entry per requested id in input
\* order, duplicates included; the entry of an id is its prediction exactly
\* when predict_match of that id alone succeeds, and an error entry
\* otherwise; the call never raises.
C6_BatchIsolation ==
  [][\A proba \in PlainProbaArgs :
     (/\ response'.op = "batch"
      /\ PredictBatch(response'.match_ids, response'.model_name,
                      response'.model_version, proba))
     => LET ids == response'.match_ids
            out == response'.predictions
        IN  /\ ~response'.raised
            /\ Len(out) = Len(ids)
            /\ \A i \in 1..Len(ids) :
                 /\ out[i].match_id = ids[i]
                 /\ out[i].kind = "prediction" <=>
                      PredictMatch(files, predictions, ids[i], response'.model_name,
                                   response'.model_version, proba).ok
                 /\ out[i].kind = "prediction" =>
                      \E r \in 1..Len(predictions') :
                        /\ predictions'[r].id = out[i].prediction_id
                        /\ predictions'[r].match_id = ids[i]
                 /\ out[i].kind # "prediction" =>
                      (out[i].kind = "error" /\ out[i].error # "")]_vars

\* A batch of a valid id, a missing id and the valid id again has ended with
\* a prediction, an error entry and a prediction.
C6_Witness ==
  /\ response.op = "batch"
  /\ ~response.raised
  /\ Len(response.match_ids) = 3
  /\ response.match_ids[2] \notin MatchIds
  /\ Len(response.predictions) = 3
  /\ response.predictions[1].kind = "prediction"
  /\ response.predictions[2].kind = "error"
  /\ response.predictions[3].kind = "prediction"

\* C15: predict_match fails, and inserts no row of predictions, when the
\* match id is the id of no match or when no artifact was stored under the
\* requested model name (and version, when one is given).
C15_NotFoundCreatesNothing ==
  [][\A id \in MatchIdArgs, n \in ModelNames, v \in VersionArgs, proba \in PlainProbaArgs :
       (/\ PredictOne(id, n, v, proba)
        /\ \/ id \notin MatchIds
           \/ v = None /\ StoredVersions(files, n) = {}
           \/ v # None /\ v \notin StoredVersions(files, n))
       => (~response'.ok /\ predictions' = predictions)]_vars

\* C16: a failed single prediction reaches the caller with a status by kind:
\* 404 for a missing match or model, 400 for a feature-schema mismatch, 500
\* for a failure of the library or of the commit.
C16_FailureKindsDistinct ==
  (response.op = "predict" /\ ~response.ok) =>
    response.status =
      CASE response.error \in {"Match not found", "No model found", "Model file not found"}
             -> 404
        [] response.error = "KeyError" -> 400
        [] OTHER -> 500

\* ------------------------------------------------- claims: delete_model

\* C11: delete_model(name) removes every model_performance row and every
\* predictions row whose model name equals name and leaves the rows of every
\* other model name as they were.
C11_DeleteCascadeFrame ==
  [][\A n \in ModelNames :
       DeleteModel(n) =>
         /\ RowsOf(performance', n) = {}
         /\ \A i \in 1..Len(predictions') : predictions'[i].model_name # n
         /\ \A o \in ModelNames \ {n} :
              /\ RowsOf(performance', o) = RowsOf(performance, o)
              /\ SelectSeq(predictions', LAMBDA p : p.model_name = o) =
                   SelectSeq(predictions, LAMBDA p : p.model_name = o)]_vars

\* C11 witness: a model was deleted after it was trained and predicted with
\* (its artifact is there, its rows are gone, the first row of predictions is
\* gone), and the rows of the other model are still there.
C11_Witness ==
  \E n \in ModelNames, o \in ModelNames :
    /\ n # o
    /\ trainer = [t \in Trainers |-> Idle]
    /\ StoredVersions(files, n) # {}
    /\ RowsOf(performance, n) = {}
    /\ RowsOf(performance, o) # {}
    /\ Len(predictions) = 1
    /\ predictions[1].id = 2
    /\ predictions[1].model_name = o

\* ------------------------------------------ claims: training and flags

\* C12: a training run that succeeds inserts its model_performance row with
\* is_active = false and changes no existing row; the set of active rows
\* changes only when an activation commits or a model is deleted.
C12_TrainingNeverActivates ==
  [][/\ \A t \in Trainers :
          TrainSavePerformance(t) =>
            /\ performance \subseteq performance'
            /\ Cardinality(performance' \ performance) = 1
            /\ \A r \in performance' \ performance :
                 /\ ~r.is_active
                 /\ r.model_name = trainer[t].model_name
                 /\ r.model_version = trainer[t].model_version
     /\ {r \in performance' : r.is_active} # {r \in performance : r.is_active}
          => \/ tx.pc = "cleared" /\ tx'.pc = "none"
             \/ \E n \in ModelNames : DeleteModel(n)]_vars

\* C12 witness: a name has an active row and a row inserted after the
\* activation (a larger id), which is not active.
C12_Witness ==
  /\ tx = NoTx
  /\ \E r \in performance, later \in performance :
       /\ r.model_name = later.model_name
       /\ r.is_active
       /\ later.id > r.id
       /\ ~later.is_active

\* C13: when no match with both scores passes the league and season filters,
\* train_model returns an error result that carries the message of the empty
\* data, and raises nothing.
C13_EmptyDataStructuredError ==
  [][\A t \in Trainers, cfg \in Configs, library \in PlainLibraryArgs :
       (TrainStart(t, cfg, library) /\ TrainingMatches(cfg) = {})
         => /\ trainResult'.status = "error"
            /\ trainResult'.detail = "No training data available"]_vars

\* C14: a training_config whose model_type is none of the four families gets
\* the error result of the unknown family, whatever the training data is
\* (the library calls that are reached go through).
C14_UnknownFamilyRejected ==
  [][\A t \in Trainers, cfg \in Configs, library \in PlainLibraryArgs :
       (/\ TrainStart(t, cfg, library)
        /\ library = LibraryFine
        /\ "model_type" \in cfg.keys
        /\ "model_name" \in cfg.keys
        /\ cfg.model_type \notin KnownModelTypes)
         => /\ trainResult'.status = "error"
            /\ trainResult'.detail = "Unknown model type"]_vars

\* -------------------------------------------- claims: probabilities

\* C17: in every result predict_match returns, the home, away and draw
\* probabilities sum to 1 and the overall confidence is the largest of them.
C17_ResultSimplex ==
  (response.op = "predict" /\ response.ok) =>
    LET r == response.prediction IN
      /\ r.home_win_probability + r.away_win_probability + r.draw_probability
           = ProbaScale
      /\ r.overall_confidence \in
           {r.home_win_probability, r.away_win_probability, r.draw_probability}
      /\ r.overall_confidence >= r.home_win_probability
      /\ r.overall_confidence >= r.away_win_probability
      /\ r.overall_confidence >= r.draw_probability

\* C17 witness: predict_match has returned a result whose largest probability
\* is not the home one.
C17_Witness ==
  /\ response.op = "predict"
  /\ response.ok
  /\ response.prediction.home_win_probability < response.prediction.overall_confidence

\* The probability a result reports for an outcome letter.
ProbabilityOf(r, outcome) ==
  CASE outcome = "H" -> r.home_win_probability
    [] outcome = "A" -> r.away_win_probability
    [] outcome = "D" -> r.draw_probability

\* C23: in every result predict_match returns, the probability reported for
\* the predicted outcome letter is the overall confidence.
C23_OutcomeIsArgmax ==
  (response.op = "predict" /\ response.ok) =>
    ProbabilityOf(response.prediction, response.prediction.predicted_outcome)
      = response.prediction.overall_confidence

\* C23 witness: predict_match has returned a draw, with a confidence above
\* the home probability.
C23_Witness ==
  /\ response.op = "predict"
  /\ response.ok
  /\ response.prediction.predicted_outcome = "D"
  /\ response.prediction.home_win_probability < response.prediction.draw_probability

\* C18: every row of predictions has probabilities in [0, 1] that sum to 1
\* and a confidence that is the largest of them, whichever call inserted it.
C18_StoredSimplex ==
  \A i \in 1..Len(predictions) :
    LET r == predictions[i] IN
      /\ {r.home_win_probability, r.away_win_probability, r.draw_probability}
           \subseteq 0..ProbaScale
      /\ r.home_win_probability + r.away_win_probability + r.draw_probability
           = ProbaScale
      /\ r.overall_confidence \in
           {r.home_win_probability, r.away_win_probability, r.draw_probability}
      /\ r.overall_confidence >= r.home_win_probability
      /\ r.overall_confidence >= r.away_win_probability
      /\ r.overall_confidence >= r.draw_probability

\* ------------------------------------------------ claims: class indices

\* C19: for every artifact in the models directory, each outcome has one
\* label in the encoding of y, its metrics are read from the report entry of
\* that label, and the entry of the probability row that inference reads for
\* the outcome is the column of that label's class, also when an outcome is
\* rare in the training data.
C19_ClassIndexConsistent ==
  \A f \in DOMAIN files :
    LET classes == files[f].model.classes IN
      \A o \in {"H", "A", "D"} :
        /\ EvaluationLabel[o] = LabelEncoding[o]
        /\ InferenceIndex[o] + 1 \in DOMAIN classes
        /\ classes[InferenceIndex[o] + 1] = LabelEncoding[o]

\* ------------------------------------------- claims: the training run

\* C20: every call of train_model either goes on running or ends with an
\* error result, and a success result is returned only by a run whose
\* artifact is stored under its name and version, in the step that commits
\* the performance row of that name and version; the result carries them.
C20_TrainingLifecycle ==
  [][/\ \A t \in Trainers, cfg \in Configs, library \in PlainLibraryArgs :
          TrainStart(t, cfg, library)
            => \/ trainer'[t].pc = "fitted"
               \/ trainResult'.status = "error"
     /\ (trainResult' # trainResult /\ trainResult'.status = "success")
          => \E t \in Trainers :
               /\ trainer[t].pc = "saved"
               /\ trainer'[t].pc = "idle"
               /\ trainResult'.model_name = trainer[t].model_name
               /\ trainResult'.model_version = trainer[t].model_version
               /\ ModelFilename(trainer[t].model_name, trainer[t].model_version)
                    \in DOMAIN files
               /\ \E r \in performance' \ performance :
                    /\ r.model_name = trainer[t].model_name
                    /\ r.model_version = trainer[t].model_version]_vars

\* ------------------------------------------- claims: the ground truth

\* C21: the predicted columns of a row of predictions never change, and a row
\* whose match has both final scores gets, in the end, the actual scores, the
\* actual outcome and is_correct = (predicted_outcome = the match's result).
C21_GroundTruthAttached ==
  /\ [][\A i \in 1..Len(predictions), j \in 1..Len(predictions') :
          predictions[i].id = predictions'[j].id
            => /\ predictions'[j].predicted_outcome = predictions[i].predicted_outcome
               /\ predictions'[j].overall_confidence = predictions[i].overall_confidence]_vars
  /\ \A id \in 1..MaxPred :
       (\E i \in 1..Len(predictions) :
          /\ predictions[i].id = id
          /\ Result(MatchOf(matches, predictions[i].match_id)) # "None")
       ~> (\E i \in 1..Len(predictions) :
             LET match == MatchOf(matches, predictions[i].match_id) IN
               /\ predictions[i].id = id
               /\ predictions[i].actual_outcome = Result(match)
               /\ predictions[i].actual_home_score = match.home_score
               /\ predictions[i].actual_away_score = match.away_score
               /\ predictions[i].is_correct =
                    IF predictions[i].predicted_outcome = Result(match)
                      THEN "True" ELSE "False")

\* ------------------------------------------------ claims: the matches

\* C24: the result of every match is absent when a final score is absent,
\* and otherwise H, A or D as the home score is larger than, smaller than or
\* equal to the away score; update_match answers with that result.
C24_ResultDerived ==
  /\ \A m \in matches :
       IF m.home_score = NoScore \/ m.away_score = NoScore
         THEN Result(m) = "None"
         ELSE /\ Result(m) \in {"H", "A", "D"}
              /\ Result(m) = "H" <=> m.home_score > m.away_score
              /\ Result(m) = "A" <=> m.away_score > m.home_score
              /\ Result(m) = "D" <=> m.home_score = m.away_score
  /\ (response.op = "update_match" /\ response.status = 200)
       => \E m \in matches : response.result = Result(m)

\* C24 witness: update_match has recorded a tie of the scheduled match.
C24_Witness ==
  /\ response.op = "update_match"
  /\ response.result = "D"
  /\ \E m \in matches : m.id = 2 /\ m.home_score = m.away_score /\ m.home_score # NoScore

\* C25: a training run is fitted on exactly the matches that have both
\* final scores and pass the league filter and the season filter of its
\* config, each when given; with no such match it ends with the error of the
\* empty data. No match that lacks a score is among its rows.
C25_TrainingSetExact ==
  [][\A cfg \in FilterConfigs :
       TrainStart(1, cfg, LibraryFine) =>
         LET expected ==
               {m \in matches :
                  /\ m.home_score # NoScore /\ m.away_score # NoScore
                  /\ (cfg.league # NoFilter => m.league = cfg.league)
                  /\ (cfg.season # NoFilter => m.season = cfg.season)}
         IN  IF expected = {}
               THEN /\ trainer'[1].pc = "idle"
                    /\ trainResult'.detail = "No training data available"
               ELSE /\ trainer'[1].pc = "fitted"
                    /\ trainer'[1].model.rows = {m.id : m \in expected}
                    /\ \A m \in matches :
                         (m.home_score = NoScore \/ m.away_score = NoScore)
                           => m.id \notin trainer'[1].model.rows]_vars

\* C25 witness: a run is fitted on the formerly scheduled match, which has
\* got its scores, and not on the match of the other league.
C25_Witness ==
  /\ trainer[1].pc = "fitted"
  /\ 2 \in trainer[1].model.rows
  /\ 3 \notin trainer[1].model.rows

\* ------------------------------------------- claims: training status

\* C26: get_training_status answers completed exactly when model_performance
\* has a row of the name, and training otherwise -- also for a name that was
\* never submitted and for a name whose run has failed.
C26_StatusFromRows ==
  [][\A n \in ModelNames :
       GetTrainingStatus(n) =>
         /\ response'.status \in {"completed", "training"}
         /\ response'.status = "completed" <=> RowsOf(performance, n) # {}]_vars

\* C26 witness: the last run, of some name, has failed, the name has no row,
\* the other name has one, and the status of the name is given as training.
C26_Witness ==
  /\ trainResult.status = "error"
  /\ response.op = "status"
  /\ response.model_name = trainResult.model_name
  /\ response.status = "training"
  /\ RowsOf(performance, response.model_name) = {}
  /\ performance # {}

\* --------------------------------------------- claims: failed runs

\* C27: the step in which a run ends with an error result changes neither
\* the models directory nor model_performance, and the run has stored no
\* artifact: no file of its name and version is in the models directory.
C27_ErrorLeavesRegistry ==
  [][\A t \in Trainers :
       /\ (trainResult' # trainResult /\ trainResult'.status = "error")
            => files' = files /\ performance' = performance
       /\ (trainer[t].pc = "saved" /\ trainer'[t].pc = "idle"
              /\ trainResult'.status = "error")
            => ModelFilename(trainer[t].model_name, trainer[t].model_version)
                 \notin DOMAIN files']_vars

\* ------------------------------------- claims: records and artifacts

\* C28: whenever no training run and no activation is under way, for every
\* model name with a row of model_performance the version of its latest row
\* (by training_date) is the version of the artifact that _load_model
\* resolves the name to when no version is given.
C28_LatestRecordIsLoaded ==
  (tx = NoTx /\ \A t \in Trainers : trainer[t].pc = "idle") =>
    \A n \in ModelNames :
      \A r \in LatestRows(performance, n) :
        LET loaded == LoadModel(files, n, None) IN
          /\ loaded.ok
          /\ files[loaded.filename].version = r.model_version

\* C29: when delete_model has deleted a name, _load_model finds no artifact
\* for the name, with no version and with every version a request can give.
C29_DeletedNotResolvable ==
  [][\A n \in ModelNames :
       DeleteModel(n) =>
         \A v \in VersionArgs : ~LoadModel(files', n, v).ok]_vars

\* ------------------------------------------- claims: activation frame

\* The rows with their flag left out of account.
Unflagged(rows) == {[r EXCEPT !.is_active = FALSE] : r \in rows}

\* C30: activate_model leaves the rows of model_performance of every other
\* name and all rows of predictions as they are, changes at most is_active
\* on the rows of its name, and for a name with no row answers 404 and
\* changes nothing.
C30_ActivateFrame ==
  [][/\ (tx.pc = "none" /\ tx'.pc = "cleared")
          => performance' = performance /\ predictions' = predictions
     /\ (tx.pc = "cleared" /\ tx'.pc = "none")
          => /\ predictions' = predictions
             /\ \A n \in ModelNames \ {tx.model_name} :
                  RowsOf(performance', n) = RowsOf(performance, n)
             /\ Unflagged(performance') = Unflagged(performance)
             /\ response'.status = 404 <=> RowsOf(performance, tx.model_name) = {}
             /\ RowsOf(performance, tx.model_name) = {}
                  => performance' = performance]_vars

\* C30 witness: an activation has completed while the other name has its
\* active row and predictions has rows.
C30_Witness ==
  /\ tx = NoTx
  /\ response.op = "activate"
  /\ response.status = 200
  /\ predictions # <<>>
  /\ \A n \in ModelNames : ActiveRows(performance, n) # {}

=============================================================================
